---- MODULE Spec2Model ----
(***************************************************************************)
(* Model of src/excel.py: the profit-and-loss consolidation pipeline.      *)
(*                                                                         *)
(*   consolidate_pl_sheets  lines 10-101                                   *)
(*   calculate_yoy          lines 104-127                                  *)
(*   process_batch_file     lines 130-193                                  *)
(*   export loop            lines 221-231                                  *)
(*                                                                         *)
(* Text is a sequence of characters, one character per element.  The       *)
(* module is written in ASCII, so each Japanese character of the source is *)
(* written as one token:                                                   *)
(*   "so","no","ta"                 the label of line 73 (other)           *)
(*   "FU","XA","KANA_I","RU","mei",":"   the file-name tag of line 145     *)
(*   "fu","mei2","na","FU","XA","KANA_I","RU"  the default name, line 158  *)
(*   "tan","ichi","DE","CHOON","TA" the name of line 149                   *)
(*                                                                         *)
(* A cell of the DataFrame is one of                                       *)
(*   [k |-> "nan"]              an empty cell (NaN)                        *)
(*   [k |-> "str", s |-> text]  a text cell                                *)
(*   [k |-> "int", n |-> i]     an integer cell                            *)
(* A float is the exact decimal n / d, d a power of ten, or missing, or an  *)
(* infinity.                                                               *)
(*                                                                         *)
(* Amounts stay within the integers the checker computes with (below 2^31  *)
(* after scaling by the denominator), far inside the float64 and int64 of  *)
(* lines 79 and 93.                                                        *)
(***************************************************************************)
EXTENDS Integers, Sequences, FiniteSets, TLC

VARIABLES
    pc,                  \* position in the running function
    str_na,              \* TRUE: astype(str) turns NaN into the text 'nan' (pandas
                         \* before 3.0); FALSE: it keeps NaN missing (pandas 3.0 on)
    df_full,             \* the input DataFrame (header=None): a sequence of rows of cells
    block_definitions,   \* consolidate_pl_sheets, line 43
    dfs,                 \* consolidate_pl_sheets, line 53
    consolidated,        \* the value consolidate_pl_sheets returned
    df_yoy_result,       \* the value calculate_yoy returned
    split_indices,       \* process_batch_file, lines 145 and 162 (0-based rows)
    sidx,                \* the i of the loop of line 164 (0-based)
    current_filename,    \* line 158
    results,             \* line 156: the dict, as [key, table] in insertion order
    chunks,              \* the data_chunk row ranges handed to consolidate_pl_sheets
    sheets               \* the worksheet names to_excel wrote to (line 226), in order

vars == <<pc, str_na, df_full, block_definitions, dfs, consolidated, df_yoy_result,
          split_indices, sidx, current_filename, results, chunks, sheets>>

----------------------------------------------------------------------------
(* Characters and text                                                     *)

DigitChars == <<"0", "1", "2", "3", "4", "5", "6", "7", "8", "9">>

IsDigit(c) == \E i \in 1..10 : DigitChars[i] = c

DigitVal(c) == (CHOOSE i \in 1..10 : DigitChars[i] = c) - 1

\* str.strip() and the regex class \s, over the whitespace the model's text holds
IsSpace(c) == c = " "

RECURSIVE LStrip(_)
LStrip(s) == IF s /= <<>> /\ IsSpace(Head(s)) THEN LStrip(Tail(s)) ELSE s

RECURSIVE RStrip(_)
RStrip(s) ==
    IF s /= <<>> /\ IsSpace(s[Len(s)]) THEN RStrip(SubSeq(s, 1, Len(s) - 1)) ELSE s

Strip(s) == RStrip(LStrip(s))

AllDigits(s) == \A i \in 1..Len(s) : IsDigit(s[i])

RECURSIVE DigitsToInt(_)
DigitsToInt(s) ==
    IF s = <<>> THEN 0
    ELSE 10 * DigitsToInt(SubSeq(s, 1, Len(s) - 1)) + DigitVal(s[Len(s)])

RECURSIVE NatToStr(_)
NatToStr(n) ==
    IF n < 10 THEN <<DigitChars[n + 1]>>
    ELSE Append(NatToStr(n \div 10), DigitChars[(n % 10) + 1])

\* str(i) of a Python int
IntToStr(i) == IF i < 0 THEN <<"-">> \o NatToStr(-i) ELSE NatToStr(i)

\* s.startswith(p) at position i (1-based)
MatchAt(s, p, i) ==
    /\ i + Len(p) - 1 <= Len(s)
    /\ \A j \in 1..Len(p) : s[i + j - 1] = p[j]

\* p in s
Contains(s, p) == \E i \in 1..(Len(s) + 1) : MatchAt(s, p, i)

\* s.replace(p, '') for a non-empty p: leftmost occurrences, not overlapping
RECURSIVE RemoveAll(_, _)
RemoveAll(s, p) ==
    IF s = <<>> THEN <<>>
    ELSE IF MatchAt(s, p, 1) THEN RemoveAll(SubSeq(s, Len(p) + 1, Len(s)), p)
    ELSE <<Head(s)>> \o RemoveAll(Tail(s), p)

\* re.sub(prefix + r'\d+$', '', s): the leftmost i with s[i:] = prefix digits+
StripDigitSuffix(s, prefix) ==
    LET hits == {i \in 1..Len(s) :
                    /\ MatchAt(s, prefix, i)
                    /\ i + Len(prefix) <= Len(s)
                    /\ AllDigits(SubSeq(s, i + Len(prefix), Len(s)))}
    IN  IF hits = {} THEN s
        ELSE SubSeq(s, 1, (CHOOSE i \in hits : \A j \in hits : i <= j) - 1)

----------------------------------------------------------------------------
(* Cells and numbers                                                       *)

NaN == [k |-> "nan"]
T(s) == [k |-> "str", s |-> s]
I(n) == [k |-> "int", n |-> n]

\* pd.notna(cell_value)
notna(cell) == cell.k /= "nan"

\* str(cell_value): line 28, and astype(str) of a cell that is not missing
str(cell) ==
    CASE cell.k = "str" -> cell.s
      [] cell.k = "int" -> IntToStr(cell.n)
      [] cell.k = "nan" -> <<"n", "a", "n">>

\* year_pat of line 23: ^\s*20\d{2}\s*$
year_pat_match(s) ==
    LET t == Strip(s)
    IN  /\ Len(t) = 4
        /\ t[1] = "2" /\ t[2] = "0"
        /\ IsDigit(t[3]) /\ IsDigit(t[4])

\* A float: missing, or the exact decimal n / d
FNaN == [nan |-> TRUE, inf |-> 0, n |-> 0, d |-> 1]
F(n, d) == [nan |-> FALSE, inf |-> 0, n |-> n, d |-> d]

\* float('inf') with sign 1, float('-inf') with sign -1
FInf(sign) == [nan |-> FALSE, inf |-> sign, n |-> 0, d |-> 1]

RECURSIVE Pow10(_)
Pow10(k) == IF k = 0 THEN 1 ELSE 10 * Pow10(k - 1)

\* The float parser pd.to_numeric applies to text:
\*   ws* [+-] (digits+ [. digits*] | . digits+) ([eE] [+-] digits+)? ws*
\* An exponent mark without digits after it is not consumed, and the text is
\* then not a number.

HasSign(t) == t /= <<>> /\ Head(t) \in {"-", "+"}

IsNegative(t) == t /= <<>> /\ Head(t) = "-"

Unsigned(t) == IF HasSign(t) THEN Tail(t) ELSE t

\* the position of the exponent mark of u, Len(u) + 1 when it has none
ExponentMark(u) ==
    LET es == {i \in 1..Len(u) : u[i] \in {"e", "E"}}
    IN  IF es = {} THEN Len(u) + 1 ELSE CHOOSE i \in es : \A j \in es : i <= j

\* digits+ [. digits*] | . digits+ : the digits as an integer, and the number of
\* them after the point
Mantissa(m) ==
    LET dots == {i \in 1..Len(m) : m[i] = "."}
        dot  == IF dots = {} THEN Len(m) + 1 ELSE CHOOSE i \in dots : TRUE
    IN  [ok   |-> /\ Cardinality(dots) <= 1
                  /\ \A i \in 1..Len(m) : i /= dot => IsDigit(m[i])
                  /\ Len(m) - Cardinality(dots) >= 1,
         mag  |-> DigitsToInt(SelectSeq(m, IsDigit)),
         flen |-> IF dots = {} THEN 0 ELSE Len(m) - dot]

\* [+-] digits+ after an exponent mark; exponent 0 without a mark
Exponent(x, marked) ==
    IF ~marked THEN [ok |-> TRUE, ex |-> 0]
    ELSE [ok |-> Unsigned(x) /= <<>> /\ AllDigits(Unsigned(x)),
          ex |-> IF IsNegative(x) THEN -DigitsToInt(SelectSeq(x, IsDigit))
                 ELSE DigitsToInt(SelectSeq(x, IsDigit))]

\* the value (-1)^neg * mag * 10^(ex - flen) as an exact decimal
Scaled(ma, xp, neg) ==
    IF ~(ma.ok /\ xp.ok) THEN FNaN
    ELSE IF xp.ex >= ma.flen
         THEN F((IF neg THEN -ma.mag ELSE ma.mag) * Pow10(xp.ex - ma.flen), 1)
         ELSE F(IF neg THEN -ma.mag ELSE ma.mag, Pow10(ma.flen - xp.ex))

ParseUnsigned(u, e, neg) ==
    Scaled(Mantissa(SubSeq(u, 1, e - 1)),
           Exponent(SubSeq(u, e + 1, Len(u)), e <= Len(u)),
           neg)

ParseStripped(t) == ParseUnsigned(Unsigned(t), ExponentMark(Unsigned(t)), IsNegative(t))

\* ASCII lower case of the letters the texts below are spelt with
LowerChar(c) ==
    CASE c = "I" -> "i"
      [] c = "N" -> "n"
      [] c = "F" -> "f"
      [] c = "T" -> "t"
      [] c = "Y" -> "y"
      [] OTHER   -> c

\* The texts the parser takes for an infinity when the grammar above fails: the
\* whole text, in any case, is inf or infinity with an optional sign.  The sign
\* of the infinity, 0 for any other text.
InfinitySign(s) ==
    LET l    == [i \in 1..Len(s) |-> LowerChar(s[i])]
        inf  == <<"i", "n", "f">>
        infy == <<"i", "n", "f", "i", "n", "i", "t", "y">>
    IN  IF l \in {inf, <<"+">> \o inf, infy, <<"+">> \o infy} THEN 1
        ELSE IF l \in {<<"-">> \o inf, <<"-">> \o infy} THEN -1
        ELSE 0

ParseFloat(s) ==
    IF InfinitySign(s) /= 0 THEN FInf(InfinitySign(s)) ELSE ParseStripped(Strip(s))

\* Series.replace({",": ""}, regex=True) of line 78: text cells only
replace_commas(cell) ==
    IF cell.k = "str" THEN T(RemoveAll(cell.s, <<",">>)) ELSE cell

\* pd.to_numeric(..., errors="coerce") of line 79
to_numeric(cell) ==
    CASE cell.k = "nan" -> FNaN
      [] cell.k = "int" -> F(cell.n, 1)
      [] cell.k = "str" -> ParseFloat(cell.s)

\* .fillna(0)
fillna0(f) == IF f.nan THEN F(0, 1) ELSE f

\* .astype(int) of a finite float: truncation toward zero
astype_int(f) == IF f.n >= 0 THEN f.n \div f.d ELSE -((-f.n) \div f.d)

----------------------------------------------------------------------------
(* consolidate_pl_sheets, lines 10-101                                     *)

NRows(df) == Len(df)
NCols(df) == IF df = <<>> THEN 0 ELSE Len(df[1])

\* df_full.iat[r, c], 0-based
iat(df, r, c) == df[r + 1][c + 1]

\* lines 24-29: the cells matching year_pat, in scan order (row by row)
RECURSIVE ScanYears(_, _)
ScanYears(df, k) ==
    IF k >= NRows(df) * NCols(df) THEN <<>>
    ELSE LET r == k \div NCols(df)
             c == k % NCols(df)
             cell_value == iat(df, r, c)
         IN  (IF notna(cell_value) /\ year_pat_match(str(cell_value))
              THEN <<[row |-> r, col |-> c,
                      year |-> DigitsToInt(Strip(str(cell_value)))]>>
              ELSE <<>>)
             \o ScanYears(df, k + 1)

\* line 34: year_cells.sort(key=row), a stable sort
RECURSIVE SortByRow(_)
SortByRow(cells) ==
    IF cells = <<>> THEN <<>>
    ELSE LET m  == CHOOSE i \in 1..Len(cells) :
                       /\ \A j \in 1..Len(cells) : cells[i].row <= cells[j].row
                       /\ \A j \in 1..(i - 1) : cells[j].row > cells[i].row
         IN  <<cells[m]>> \o
             SortByRow(SubSeq(cells, 1, m - 1) \o SubSeq(cells, m + 1, Len(cells)))

\* lines 36-41: the first cell of each year
RECURSIVE UniqueYears(_, _)
UniqueYears(cells, processed_years) ==
    IF cells = <<>> THEN <<>>
    ELSE IF Head(cells).year \in processed_years
         THEN UniqueYears(Tail(cells), processed_years)
         ELSE <<Head(cells)>> \o
              UniqueYears(Tail(cells), processed_years \cup {Head(cells).year})

\* lines 43-50
BlockDefs(df, ucells) ==
    [i \in 1..Len(ucells) |->
        [year  |-> ucells[i].year,
         col   |-> ucells[i].col,
         start |-> ucells[i].row + 1,
         end   |-> IF i + 1 <= Len(ucells) THEN ucells[i + 1].row ELSE NRows(df)]]

\* The label 'sonota' (other) of lines 73, 74, 81 and the tag of line 84
SONOTA == <<"so", "no", "ta">>
TEMP_TAG == <<"_", "t", "e", "m", "p", "_">>

\* line 68: astype(str).str.strip() of the item cell.  A missing cell becomes the
\* text 'nan' where astype(str) stringifies NaN (pandas before 3.0) and stays
\* missing where it keeps missing values (pandas 3.0 on): na_text says which.
item_name(cell, na_text) ==
    IF notna(cell) \/ na_text
    THEN [missing |-> FALSE, s |-> Strip(str(cell))]
    ELSE [missing |-> TRUE, s |-> <<>>]

\* line 63: df_full.iloc[start:end], as 1-based row numbers of df
SliceRows(df, block) ==
    LET lo == block.start + 1
        hi == IF block.end <= NRows(df) THEN block.end ELSE NRows(df)
    IN  [i \in 1..(IF hi >= lo THEN hi - lo + 1 ELSE 0) |-> lo + i - 1]

\* lines 63-70: the rows of the block with their item name, missing and empty
\* names dropped
NamedRows(df, block, na_text) ==
    LET rs  == SliceRows(df, block)
        sub == [i \in 1..Len(rs) |->
                    [src  |-> rs[i],
                     nm   |-> item_name(df[rs[i]][1], na_text),
                     cell |-> df[rs[i]][block.col + 1]]]
        kept == SelectSeq(sub, LAMBDA x : ~x.nm.missing /\ x.nm.s /= <<>>)
    IN  [i \in 1..Len(kept) |->
            [src |-> kept[i].src, name |-> kept[i].nm.s, cell |-> kept[i].cell]]

\* KeepFirst with 'sonota' deduplicated like every other name
KeepFirst_Every(rows) ==
    LET idx == {i \in 1..Len(rows) :
                   \A j \in 1..(i - 1) : rows[j].name /= rows[i].name}
        F0[i \in 0..Len(rows)] ==
            IF i = 0 THEN <<>>
            ELSE IF i \in idx THEN Append(F0[i - 1], rows[i]) ELSE F0[i - 1]
    IN  F0[Len(rows)]

\* KeepFirst keeping the last row of a name instead of the first
KeepFirst_Last(rows) ==
    LET idx == {i \in 1..Len(rows) :
                   \/ rows[i].name = SONOTA
                   \/ \A j \in (i + 1)..Len(rows) : rows[j].name /= rows[i].name}
        F0[i \in 0..Len(rows)] ==
            IF i = 0 THEN <<>>
            ELSE IF i \in idx THEN Append(F0[i - 1], rows[i]) ELSE F0[i - 1]
    IN  F0[Len(rows)]

\* lines 73-76: every 'sonota' row, and the first row of every other name
KeepFirst(rows) ==
    LET idx == {i \in 1..Len(rows) :
                   \/ rows[i].name = SONOTA
                   \/ \A j \in 1..(i - 1) : rows[j].name /= rows[i].name}
        F0[i \in 0..Len(rows)] ==
            IF i = 0 THEN <<>>
            ELSE IF i \in idx THEN Append(F0[i - 1], rows[i]) ELSE F0[i - 1]
    IN  F0[Len(rows)]

\* lines 78-79
coerce_amount(cell) == fillna0(to_numeric(replace_commas(cell)))

\* lines 81-84: groupby(name).cumcount() appended to the 'sonota' labels
TagSonota(rows) ==
    [i \in 1..Len(rows) |->
        LET cnt == Cardinality({j \in 1..(i - 1) : rows[j].name = rows[i].name})
        IN  [src  |-> rows[i].src,
             name |-> IF rows[i].name = SONOTA
                      THEN SONOTA \o TEMP_TAG \o NatToStr(cnt)
                      ELSE rows[i].name,
             val  |-> coerce_amount(rows[i].cell)]]

\* ExtractBlock without the 'if sub.empty: continue' of line 71
ExtractBlock_NoSkip(df, block, na_text) ==
    [skip |-> FALSE, year |-> block.year,
     rows |-> TagSonota(KeepFirst(NamedRows(df, block, na_text)))]

\* lines 54-87, one iteration: the frame appended to dfs, or skip (continue)
\* (the test of line 60 never holds: a frame read with header=None has every
\* column 0..n-1, and val_col is one of them)
ExtractBlock(df, block, na_text) ==
    LET named == NamedRows(df, block, na_text)
    IN  IF named = <<>>
        THEN [skip |-> TRUE, year |-> block.year, rows |-> <<>>]
        ELSE [skip |-> FALSE, year |-> block.year,
              rows |-> TagSonota(KeepFirst(named))]

\* the index of frame f (set_index of line 86), top to bottom
FrameLabels(f) == [i \in 1..Len(f.rows) |-> f.rows[i].name]

\* a label occurs twice in an index: the literal item name 'sonota'_temp_k beside
\* the tag line 84 gave the (k+1)-th 'sonota' row
HasDuplicates(labels) ==
    \E i, j \in 1..Len(labels) : i < j /\ labels[i] = labels[j]

\* every frame has the index of the first, label by label: pd.concat then keeps
\* that index and reindexes no frame
AllSame(frames) ==
    \A i \in 1..Len(frames) : FrameLabels(frames[i]) = FrameLabels(frames[1])

\* the index of pd.concat(dfs, axis=1, join="outer") of frames whose indexes are
\* not all the same: the distinct labels in order of appearance
RECURSIVE UnionLabels(_, _)
UnionLabels(names, seen) ==
    IF names = <<>> THEN <<>>
    ELSE IF Head(names) \in seen THEN UnionLabels(Tail(names), seen)
         ELSE <<Head(names)>> \o UnionLabels(Tail(names), seen \cup {Head(names)})

\* AllNames of a join that keeps the labels of the first frame only
AllNames_Left(frames) ==
    [i \in 1..Len(Head(frames).rows) |-> Head(frames).rows[i].name]

RECURSIVE AllNames(_)
AllNames(frames) ==
    IF frames = <<>> THEN <<>>
    ELSE [i \in 1..Len(Head(frames).rows) |-> Head(frames).rows[i].name]
         \o AllNames(Tail(frames))

\* the cell of frame f at label l after it is reindexed to the union (the labels
\* of f are distinct there): missing when f has no l
JoinCell(f, l) ==
    LET hit == {i \in 1..Len(f.rows) : f.rows[i].name = l}
    IN  IF hit = {} THEN FNaN ELSE f.rows[CHOOSE i \in hit : TRUE].val

\* sorted(...) of line 95
RECURSIVE SortInts(_)
SortInts(S) ==
    IF S = {} THEN <<>>
    ELSE LET m == CHOOSE x \in S : \A y \in S : x <= y
         IN  <<m>> \o SortInts(S \ {m})

\* strip_temp leaving the tag in place
strip_temp_keep(name) == name

\* line 99: str.replace(r'_temp_\d+$', '', regex=True)
strip_temp(name) == StripDigitSuffix(name, TEMP_TAG)

\* line 93 raised (InvalidIndexError of pd.concat, or IntCastingNaNError of
\* astype(int)): no value is returned
Raised == [none |-> FALSE, error |-> TRUE, years |-> <<>>, rows |-> <<>>]

\* a frame holds an infinite amount: fillna(0) keeps it and astype(int) raises
HasInfinite(frames) ==
    \E i \in 1..Len(frames) : \E r \in 1..Len(frames[i].rows) :
        frames[i].rows[r].val.inf /= 0

\* lines 93-101.  Frames that all carry one index are put side by side row by
\* row, repeated labels included; otherwise every frame is reindexed to the
\* union of the labels, which raises for a frame whose index repeats a label.
\* astype(int) raises when a cell of the joined table is infinite.
Consolidate(frames) ==
    LET same      == AllSame(frames)
        labels    == IF same THEN FrameLabels(frames[1])
                     ELSE UnionLabels(AllNames(frames), {})
        year_cols == SortInts({frames[i].year : i \in 1..Len(frames)})
        frameOf(y) == frames[CHOOSE i \in 1..Len(frames) : frames[i].year = y]
        cell(f, r) == IF same THEN f.rows[r].val ELSE JoinCell(f, labels[r])
    IN  IF ~same /\ \E i \in 1..Len(frames) : HasDuplicates(FrameLabels(frames[i]))
        THEN Raised
        ELSE IF HasInfinite(frames) THEN Raised
        ELSE [none  |-> FALSE,
              error |-> FALSE,
              years |-> year_cols,
              rows  |-> [r \in 1..Len(labels) |->
                           [name |-> strip_temp(labels[r]),
                            vals |-> [c \in 1..Len(year_cols) |->
                                        astype_int(fillna0(
                                            cell(frameOf(year_cols[c]), r)))]]]]

NoTable == [none |-> TRUE, error |-> FALSE, years |-> <<>>, rows |-> <<>>]

\* the frames of the loop of lines 54-87 over blocks 1..n
RECURSIVE Frames(_, _, _, _)
Frames(df, blocks, n, na_text) ==
    IF n = 0 THEN <<>>
    ELSE LET f == ExtractBlock(df, blocks[n], na_text)
         IN  Frames(df, blocks, n - 1, na_text) \o (IF f.skip THEN <<>> ELSE <<f>>)

YearCells(df) == SortByRow(ScanYears(df, 0))

Blocks(df) == BlockDefs(df, UniqueYears(YearCells(df), {}))

\* consolidate_pl_sheets(df_full): the table, NoTable for None, or Raised
consolidate_pl_sheets(df, na_text) ==
    IF NRows(df) = 0 \/ NCols(df) = 0 THEN NoTable
    ELSE IF YearCells(df) = <<>> THEN NoTable
    ELSE LET frames == Frames(df, Blocks(df), Len(Blocks(df)), na_text)
         IN  IF frames = <<>> THEN NoTable ELSE Consolidate(frames)

----------------------------------------------------------------------------
(* calculate_yoy, lines 104-127                                            *)

\* The characters of the model's text in code-point order (Python compares str
\* by code point; groupby sorts its keys)
CharOrder ==
    <<" ", "*", "+", ",", "-", ".", "/",
      "0", "1", "2", "3", "4", "5", "6", "7", "8", "9", ":", "?",
      "A", "B", "C", "E", "F", "I", "N", "R", "T", "Y", "_",
      "a", "b", "e", "f", "i", "m", "n", "p", "t", "x", "y",
      "so", "na", "no", "XA", "KANA_I", "TA", "DE", "FU", "RU", "CHOON",
      "ichi", "fu", "ta", "tan", "mei", "mei2">>

CodePoint(c) == CHOOSE i \in 1..Len(CharOrder) : CharOrder[i] = c

RECURSIVE LessStr(_, _)
LessStr(a, b) ==
    IF b = <<>> THEN FALSE
    ELSE IF a = <<>> THEN TRUE
    ELSE IF Head(a) = Head(b) THEN LessStr(Tail(a), Tail(b))
    ELSE CodePoint(Head(a)) < CodePoint(Head(b))

RECURSIVE SortNames(_)
SortNames(S) ==
    IF S = {} THEN <<>>
    ELSE LET m == CHOOSE x \in S : \A y \in S \ {x} : LessStr(x, y)
         IN  <<m>> \o SortNames(S \ {m})

RECURSIVE SumSeq(_)
SumSeq(s) == IF s = <<>> THEN 0 ELSE Head(s) + SumSeq(Tail(s))

\* line 106-107: df.groupby(name).sum(), keys sorted, one summed row per name
GroupSum(df) ==
    LET names == SortNames({df.rows[i].name : i \in 1..Len(df.rows)})
    IN  [g \in 1..Len(names) |->
            [name |-> names[g],
             vals |-> [c \in 1..Len(df.years) |->
                         SumSeq([i \in 1..Len(df.rows) |->
                                   IF df.rows[i].name = names[g]
                                   THEN df.rows[i].vals[c] ELSE 0])]]]

\* A cell of the result: a number n / d, a missing value, or an infinity
Num(n, d) == [nan |-> FALSE, inf |-> 0, n |-> n, d |-> d]
Missing == [nan |-> TRUE, inf |-> 0, n |-> 0, d |-> 1]
Inf(sign) == [nan |-> FALSE, inf |-> sign, n |-> 0, d |-> 1]

\* line 109: diff(axis=1)
diff_cell(vals, c) == IF c = 1 THEN Missing ELSE Num(vals[c] - vals[c - 1], 1)

\* line 112: pct_change(axis=1) * 100, float division by the previous column
pct_cell(vals, c) ==
    IF c = 1 THEN Missing
    ELSE LET v == vals[c]
             q == vals[c - 1]
         IN  IF q = 0
             THEN (IF v = 0 THEN Missing ELSE Inf(IF v > 0 THEN 1 ELSE -1))
             ELSE IF q > 0 THEN Num(100 * (v - q), q) ELSE Num(-(100 * (v - q)), -q)

\* A column label of df_merged: the year itself (kind "value"), f"{year} zougengaku"
\* (kind "diff") or f"{year} zougenritsu(%)" (kind "pct")
Label(year, kind) == [year |-> year, kind |-> kind]

\* lines 109-115: the columns of df_merged, in concat order
MergedCols(years) ==
    [c \in 1..Len(years) |-> Label(years[c], "value")]
    \o [c \in 1..Len(years) |-> Label(years[c], "diff")]
    \o [c \in 1..Len(years) |-> Label(years[c], "pct")]

InCols(cols, label) == \E i \in 1..Len(cols) : cols[i] = label

\* lines 117-124
RECURSIVE SortedCols(_, _)
SortedCols(year_cols, merged) ==
    IF year_cols = <<>> THEN <<>>
    ELSE LET year == Head(year_cols)
         IN  <<Label(year, "value")>>
             \o (IF InCols(merged, Label(year, "diff"))
                 THEN <<Label(year, "diff")>> ELSE <<>>)
             \o (IF InCols(merged, Label(year, "pct"))
                 THEN <<Label(year, "pct")>> ELSE <<>>)
             \o SortedCols(Tail(year_cols), merged)

\* df_merged[label] of a grouped row
MergedCell(years, vals, label) ==
    LET c == CHOOSE i \in 1..Len(years) : years[i] = label.year
    IN  CASE label.kind = "value" -> Num(vals[c], 1)
          [] label.kind = "diff"  -> diff_cell(vals, c)
          [] label.kind = "pct"   -> pct_cell(vals, c)

calculate_yoy(df) ==
    LET df_yoy == GroupSum(df)
        merged == MergedCols(df.years)
        sorted_cols ==
            SortedCols(SortInts({df.years[c] : c \in 1..Len(df.years)}), merged)
    IN  [cols |-> sorted_cols,
         rows |-> [g \in 1..Len(df_yoy) |->
                     [name  |-> df_yoy[g].name,
                      cells |-> [k \in 1..Len(sorted_cols) |->
                                   MergedCell(df.years, df_yoy[g].vals,
                                              sorted_cols[k])]]]]

----------------------------------------------------------------------------
(* process_batch_file, lines 130-193, and the export loop, lines 221-231   *)

FILE_TAG == <<"FU", "XA", "KANA_I", "RU", "mei", ":">>
DASHES == <<"-", "-", "-", "-", "-", "-", "-", "-", "-", "-">>
UNKNOWN_FILE == <<"fu", "mei2", "na", "FU", "XA", "KANA_I", "RU">>
SINGLE_DATA == <<"tan", "ichi", "DE", "CHOON", "TA">>

\* line 144: df_full[0] = df_full[0].astype(str)
astype_str_col0(df, na_text) ==
    [r \in 1..Len(df) |->
        [c \in 1..Len(df[r]) |->
            IF c = 1 /\ (notna(df[r][1]) \/ na_text) THEN T(str(df[r][1]))
            ELSE df[r][c]]]

\* line 145: str.contains(r'<file tag>|----------', na=False) of an item cell
is_split_row(cell) ==
    notna(cell) /\ (Contains(cell.s, FILE_TAG) \/ Contains(cell.s, DASHES))

\* line 145: the 0-based rows that match, ascending
SplitRows(df) == SortInts({r \in 0..(Len(df) - 1) : is_split_row(df[r + 1][1])})

\* WithLeadingZero without the insert of line 162
WithLeadingZero_Never(idx) == idx

\* lines 161-162
WithLeadingZero(idx) == IF idx[1] /= 0 THEN <<0>> \o idx ELSE idx

\* dict lookups on results
Keys(res) == {res[k].key : k \in 1..Len(res)}

\* lines 168-173: current_filename after the header row of iteration i
NextFilename(header_text, i, res, cur) ==
    IF Contains(header_text, FILE_TAG)
    THEN Strip(RemoveAll(header_text, FILE_TAG))
    ELSE IF Contains(header_text, DASHES) /\ i > 0
    THEN LET base_name == StripDigitSuffix(
                              IF res /= <<>> THEN res[Len(res)].key ELSE UNKNOWN_FILE,
                              <<"_">>)
         IN  base_name \o <<"_">> \o NatToStr(Len(res) + 1)
    ELSE cur

\* lines 186-190: the first of name, name_2, name_3, ... that is no key yet
FinalFilename(name, res) ==
    IF name \notin Keys(res) THEN name
    ELSE LET counter == CHOOSE c \in 2..(Len(res) + 2) :
                            /\ (name \o <<"_">> \o NatToStr(c)) \notin Keys(res)
                            /\ \A e \in 2..(c - 1) :
                                   (name \o <<"_">> \o NatToStr(e)) \in Keys(res)
         IN  name \o <<"_">> \o NatToStr(counter)

\* line 223: re.sub(r'[\\/*?:"<>|]', '_', filename)[:31]
SheetNameMax == 31

SheetForbidden == {"\\", "/", "*", "?", ":", "\"", "<", ">", "|"}

safe_sheet_name(filename) ==
    LET sub == [k \in 1..Len(filename) |->
                   IF filename[k] \in SheetForbidden THEN "_" ELSE filename[k]]
    IN  SubSeq(sub, 1, IF Len(sub) < SheetNameMax THEN Len(sub) ELSE SheetNameMax)

----------------------------------------------------------------------------
(* consolidate_pl_sheets called on a DataFrame, then calculate_yoy         *)

MaxRows == 4

Y2022 == <<"2", "0", "2", "2">>

\* The rows a DataFrame is drawn from: item cell, two amount columns
Rows ==
    { <<NaN, T(Y2022), NaN>>,                                \* year header, column 1
      <<NaN, T(Y2022), I(2023)>>,                            \* two year headers on a row
      <<NaN, NaN, I(2023)>>,                                 \* year header, column 2
      <<T(<<"R">>), I(100), T(<<"1", ",", "2", "0", "0">>)>>,
      <<T(<<"R">>), T(<<"7", ".", "5">>), T(<<"3", "e", "1">>)>>,
      <<T(SONOTA), I(5), T(<<"4", "e", "-", "1">>)>>,
      <<T(SONOTA \o TEMP_TAG \o <<"0">>), I(6), T(<<"-", "I", "n", "f">>)>>,
                                                             \* a name that ends as a tag
      <<T(<<" ">> \o SONOTA), T(<<"3", ".", "7">>), T(<<"-", "1", ".", "5">>)>>,
      <<NaN, I(9), T(<<"x">>)>>,                             \* empty item cell
      <<T(<<" ">>), I(8), I(8)>>,                            \* whitespace item cell
      <<T(<<"C">>), T(<<"x">>), I(1)>> }

Grids == UNION {[1..n -> Rows] : n \in 1..MaxRows}

Init ==
    /\ pc = "section1"
    /\ str_na \in BOOLEAN
    /\ df_full \in Grids
    /\ block_definitions = <<>>
    /\ dfs = <<>>
    /\ consolidated = NoTable
    /\ df_yoy_result = <<>>
    /\ split_indices = <<>>
    /\ sidx = 0
    /\ current_filename = <<>>
    /\ results = <<>>
    /\ chunks = <<>>
    /\ sheets = <<>>

\* lines 19-50: year headers and block definitions, or return None
Section1 ==
    /\ pc = "section1"
    /\ IF NRows(df_full) = 0 \/ NCols(df_full) = 0 \/ YearCells(df_full) = <<>>
       THEN /\ pc' = "returned"
            /\ UNCHANGED block_definitions
       ELSE /\ pc' = "section2"
            /\ block_definitions' = Blocks(df_full)
    /\ UNCHANGED <<str_na, df_full, dfs, consolidated, df_yoy_result, split_indices,
                   sidx, current_filename, results, chunks, sheets>>

\* lines 52-90: one frame per block that has named rows, or return None
Section2 ==
    /\ pc = "section2"
    /\ dfs' = Frames(df_full, block_definitions, Len(block_definitions), str_na)
    /\ pc' = IF dfs' = <<>> THEN "returned" ELSE "section3"
    /\ UNCHANGED <<str_na, df_full, block_definitions, consolidated, df_yoy_result,
                   split_indices, sidx, current_filename, results, chunks, sheets>>

\* lines 92-101: the outer join, returned; an InvalidIndexError of line 93 leaves
\* the function without a value
Section3 ==
    /\ pc = "section3"
    /\ consolidated' = Consolidate(dfs)
    /\ pc' = IF consolidated'.error THEN "error" ELSE "returned"
    /\ UNCHANGED <<str_na, df_full, block_definitions, dfs, df_yoy_result,
                   split_indices, sidx, current_filename, results, chunks, sheets>>

\* lines 229 and 271: calculate_yoy on a returned table
CalculateYoy ==
    /\ pc = "returned"
    /\ ~consolidated.none
    /\ df_yoy_result' = calculate_yoy(consolidated)
    /\ pc' = "done"
    /\ UNCHANGED <<str_na, df_full, block_definitions, dfs, consolidated,
                   split_indices, sidx, current_filename, results, chunks, sheets>>

Next == Section1 \/ Section2 \/ Section3 \/ CalculateYoy

Spec == Init /\ [][Next]_vars

----------------------------------------------------------------------------
(* Properties of consolidate_pl_sheets and calculate_yoy (under Spec)      *)

\* consolidate_pl_sheets returned a table
Returned == pc \in {"returned", "done"} /\ ~consolidated.none

\* the rows of df_full (1-based) in the extraction range of block b
RangeOf(b) == {r \in 1..Len(df_full) : b.start + 1 <= r /\ r <= b.end}

\* the trimmed item name of row r, as line 68 computes it
LabelAt(r) == item_name(df_full[r][1], str_na)

HasName(r) == ~LabelAt(r).missing /\ LabelAt(r).s /= <<>>

\* the rows of block b that carry an item name
Named(b) == {r \in RangeOf(b) : HasName(r)}

\* the rows of block b line 76 keeps: every 'sonota' row, and of any other name
\* the topmost row
Kept(b) ==
    {r \in Named(b) :
        \/ LabelAt(r).s = SONOTA
        \/ \A q \in Named(b) : LabelAt(q).s = LabelAt(r).s => r <= q}

\* no item name of the sheet ends in _temp_<digits>
NoTagNames ==
    \A r \in 1..Len(df_full) :
        HasName(r) => StripDigitSuffix(LabelAt(r).s, TEMP_TAG) = LabelAt(r).s

\* the rows of block b labelled 'sonota', top to bottom
SonotaSrc(b) == SortInts({r \in RangeOf(b) : HasName(r) /\ LabelAt(r).s = SONOTA})

\* the rows of the returned table labelled 'sonota', top to bottom
SonotaOut ==
    SelectSeq(consolidated.rows, LAMBDA row : row.name = SONOTA)

\* the amount cell of row r for block b
AmountCell(b, r) == df_full[r][b.col + 1]

\* the block of a year column of the returned table
BlockOf(y) ==
    block_definitions[CHOOSE i \in 1..Len(block_definitions) :
                          block_definitions[i].year = y]

TableYears == {consolidated.years[c] : c \in 1..Len(consolidated.years)}

MaxOf(S) == IF S = {} THEN 0 ELSE CHOOSE x \in S : \A y \in S : y <= x

\* C1 as claimed: the item names of a returned table are pairwise distinct
\* (rows that collapse to one name are summed into one row).
C1_NamesDistinct ==
    Returned =>
        \A i, j \in 1..Len(consolidated.rows) :
            i /= j => consolidated.rows[i].name /= consolidated.rows[j].name

\* C1 as amended: rows named 'sonota' are not summed.  Every 'sonota' row of a
\* year's range keeps a row, so the table has at least as many 'sonota' rows as
\* the fullest range has.  Where no item name of the sheet ends in
\* _temp_<digits>: it has exactly that many, no other name repeats, and the k-th
\* holds for each year the truncated amount of the k-th 'sonota' row of that
\* year's range, 0 where the year has fewer.
C1_SonotaRowsKeptApart ==
    Returned =>
        /\ Len(SonotaOut) >= MaxOf({Len(SonotaSrc(BlockOf(y))) : y \in TableYears})
        /\ NoTagNames =>
            /\ \A i, j \in 1..Len(consolidated.rows) :
                   (i /= j /\ consolidated.rows[i].name = consolidated.rows[j].name)
                       => consolidated.rows[i].name = SONOTA
            /\ Len(SonotaOut) = MaxOf({Len(SonotaSrc(BlockOf(y))) : y \in TableYears})
            /\ \A k \in 1..Len(SonotaOut) : \A c \in 1..Len(consolidated.years) :
                   LET b   == BlockOf(consolidated.years[c])
                       src == SonotaSrc(b)
                   IN  SonotaOut[k].vals[c] =
                           IF k <= Len(src)
                           THEN astype_int(coerce_amount(AmountCell(b, src[k])))
                           ELSE 0

\* C1 witness: a returned table with two 'sonota' rows from one year's range
C1_Witness ==
    /\ Returned
    /\ NoTagNames
    /\ Len(SonotaOut) = 2
    /\ SonotaOut[1].vals[1] /= 0 /\ SonotaOut[2].vals[1] /= 0

\* the sum of the floats of a sequence, as a numerator over the denominator D
RECURSIVE SumOver(_, _)
SumOver(fs, D) ==
    IF fs = <<>> THEN 0 ELSE Head(fs).n * (D \div Head(fs).d) + SumOver(Tail(fs), D)

SonotaAmounts(b) ==
    [k \in 1..Len(SonotaSrc(b)) |-> coerce_amount(AmountCell(b, SonotaSrc(b)[k]))]

\* C2 as claimed: for every year column the 'sonota' rows of the table add up to
\* the sum of the coerced amounts of the 'sonota' rows of the year's range.
C2_SonotaConserved ==
    Returned =>
        \A c \in 1..Len(consolidated.years) :
            LET fs == SonotaAmounts(BlockOf(consolidated.years[c]))
                D  == MaxOf({fs[k].d : k \in 1..Len(fs)} \cup {1})
            IN  D * SumSeq([k \in 1..Len(SonotaOut) |-> SonotaOut[k].vals[c]])
                    = SumOver(fs, D)

\* the kept rows of block b that the table shows under the name 'sonota': the
\* 'sonota' rows, and the topmost row of an item named 'sonota'_temp_<digits>
ShownAsSonota(b) ==
    {r \in Kept(b) : StripDigitSuffix(LabelAt(r).s, TEMP_TAG) = SONOTA}

\* the sum over the rows S of block b of the amounts truncated toward zero
RECURSIVE SumTruncated(_, _)
SumTruncated(S, b) ==
    IF S = {} THEN 0
    ELSE LET r == CHOOSE x \in S : TRUE
         IN  astype_int(coerce_amount(AmountCell(b, r))) + SumTruncated(S \ {r}, b)

\* C2 as amended: for every year column the 'sonota' rows of the table add up to
\* the sum of the coerced amounts, each truncated toward zero to an integer
\* (line 93), of the rows of the year's range shown as 'sonota': its 'sonota'
\* rows and the topmost row of any item named 'sonota'_temp_<digits>.
C2_SonotaConservedTruncated ==
    Returned =>
        \A c \in 1..Len(consolidated.years) :
            LET b == BlockOf(consolidated.years[c])
            IN  SumSeq([k \in 1..Len(SonotaOut) |-> SonotaOut[k].vals[c]])
                    = SumTruncated(ShownAsSonota(b), b)

\* C2 witness: a year whose range holds two 'sonota' rows with non-zero amounts
C2_Witness ==
    /\ Returned
    /\ \E c \in 1..Len(consolidated.years) :
           LET fs == SonotaAmounts(BlockOf(consolidated.years[c]))
           IN  Len(fs) >= 2 /\ astype_int(fs[1]) /= 0 /\ astype_int(fs[2]) /= 0

\* C3 as claimed: the table calculate_yoy returns has no delta and no percentage
\* column for the earliest year.
C3_NoDeltaForFirstYear ==
    pc = "done" =>
        \A k \in 1..Len(df_yoy_result.cols) :
            df_yoy_result.cols[k].year = consolidated.years[1]
                => df_yoy_result.cols[k].kind = "value"

\* C4 as claimed: no row of a returned table comes from a source row whose item
\* cell is empty or holds only whitespace.
C4_EmptyNamesDiscarded ==
    Returned =>
        \A f \in 1..Len(dfs) : \A i \in 1..Len(dfs[f].rows) :
            LET cell == df_full[dfs[f].rows[i].src][1]
            IN  notna(cell) /\ Strip(str(cell)) /= <<>>

\* the names other than 'sonota' that occur in the range of block b
NamesIn(b) == {LabelAt(r).s : r \in {q \in RangeOf(b) : HasName(q)}} \ {SONOTA}

OutRowsNamed(n) == {i \in 1..Len(consolidated.rows) : consolidated.rows[i].name = n}

ColOf(y) == CHOOSE c \in 1..Len(consolidated.years) : consolidated.years[c] = y

\* the names the table shows for the named rows of block b
ShownNamesIn(b) == {StripDigitSuffix(LabelAt(r).s, TEMP_TAG) : r \in Named(b)}

\* C6: every row of a returned table has an integer in every year column; a row
\* whose name no row of a year's range is shown under has 0 in that year's
\* column; every named row of the range of a year column is shown in the table.
C6_ZeroFill ==
    Returned =>
        /\ \A i \in 1..Len(consolidated.rows) :
               /\ Len(consolidated.rows[i].vals) = Len(consolidated.years)
               /\ \A c \in 1..Len(consolidated.years) :
                      /\ consolidated.rows[i].vals[c] \in Int
                      /\ consolidated.rows[i].name
                             \notin ShownNamesIn(BlockOf(consolidated.years[c]))
                           => consolidated.rows[i].vals[c] = 0
        /\ \A y \in TableYears : \A n \in ShownNamesIn(BlockOf(y)) :
               OutRowsNamed(n) /= {}

\* C6 witness: two items, each under one year only, both rows present with the
\* other year 0
C6_Witness ==
    /\ Returned
    /\ Len(consolidated.years) = 2
    /\ \E i, j \in 1..Len(consolidated.rows) :
           /\ consolidated.rows[i].vals[1] /= 0 /\ consolidated.rows[i].vals[2] = 0
           /\ consolidated.rows[j].vals[1] = 0 /\ consolidated.rows[j].vals[2] /= 0
           /\ consolidated.rows[i].name \notin NamesIn(BlockOf(consolidated.years[2]))
           /\ consolidated.rows[j].name \notin NamesIn(BlockOf(consolidated.years[1]))

\* the row (0-based) of the retained mark of block b
MarkRow(b) == b.start - 1

\* C7 as claimed: the values of a year column come only from rows strictly below
\* the year's first mark and strictly above the next year mark of the sheet, so
\* rows below a later, discarded mark of a year already seen contribute nothing.
C7_RowsBelowDiscardedMarkUnused ==
    Returned =>
        \A f \in 1..Len(dfs) : \A i \in 1..Len(dfs[f].rows) :
            LET b    == BlockOf(dfs[f].year)
                src0 == dfs[f].rows[i].src - 1
                ycs  == YearCells(df_full)
            IN  /\ MarkRow(b) < src0
                /\ \A k \in 1..Len(ycs) :
                       ~(MarkRow(b) < ycs[k].row /\ ycs[k].row <= src0)

\* the retained years whose range has a row with a name
YearsWithRows ==
    {block_definitions[i].year : i \in {j \in 1..Len(block_definitions) :
        \E r \in RangeOf(block_definitions[j]) : HasName(r)}}

\* C8 as claimed: every distinct year the locator found is a column of the
\* returned table.
C8_EveryYearIsColumn ==
    Returned =>
        \A k \in 1..Len(YearCells(df_full)) :
            YearCells(df_full)[k].year \in TableYears

\* C8 as amended: the year columns of a returned table are exactly the distinct
\* years whose range (below the first mark, above the next retained mark) holds
\* at least one row with a non-empty item name; a retained mark without such a
\* row yields no column.
C8_ColumnsAreYearsWithRows ==
    Returned => TableYears = YearsWithRows

\* C8 witness: a returned table, and a retained year with no named row that is
\* no column
C8_Witness ==
    /\ Returned
    /\ \E i \in 1..Len(block_definitions) :
           /\ block_definitions[i].year \notin TableYears
           /\ \A r \in RangeOf(block_definitions[i]) : ~HasName(r)

\* the topmost row of block b with name n
TopRow(b, n) ==
    CHOOSE r \in RangeOf(b) :
        /\ HasName(r) /\ LabelAt(r).s = n
        /\ \A q \in RangeOf(b) : (HasName(q) /\ LabelAt(q).s = n) => r <= q

\* C9 as claimed: a named item of a year's range has exactly one row, whose value
\* in the year's column is the coerced amount of the topmost row of that name.
C9_FirstOccurrenceExact ==
    Returned =>
        \A bi \in 1..Len(block_definitions) :
            LET b == block_definitions[bi]
            IN  \A n \in NamesIn(b) :
                    /\ Cardinality(OutRowsNamed(n)) = 1
                    /\ LET v == coerce_amount(AmountCell(b, TopRow(b, n)))
                           i == CHOOSE k \in OutRowsNamed(n) : TRUE
                       IN  consolidated.rows[i].vals[ColOf(b.year)] * v.d = v.n

\* C9 as amended: a named item of a year's range other than 'sonota' has a row
\* (under its name less a trailing _temp_<digits>) whose value in the year's
\* column is the coerced amount of the topmost row of that name, truncated toward
\* zero to an integer (line 93); later rows of the name are dropped.  Where no
\* item name of the sheet ends in _temp_<digits> that row is the only one of its
\* name.
C9_FirstOccurrence ==
    Returned =>
        \A bi \in 1..Len(block_definitions) :
            LET b == block_definitions[bi]
            IN  \A n \in NamesIn(b) :
                    /\ LET v == coerce_amount(AmountCell(b, TopRow(b, n)))
                       IN  \E i \in OutRowsNamed(StripDigitSuffix(n, TEMP_TAG)) :
                               consolidated.rows[i].vals[ColOf(b.year)] = astype_int(v)
                    /\ NoTagNames => Cardinality(OutRowsNamed(n)) = 1

\* C9 witness: a name occurring twice in a range with different amounts
C9_Witness ==
    /\ Returned
    /\ \E bi \in 1..Len(block_definitions) :
           LET b == block_definitions[bi]
           IN  \E n \in NamesIn(b) : \E q \in RangeOf(b) :
                   /\ HasName(q) /\ LabelAt(q).s = n /\ q > TopRow(b, n)
                   /\ astype_int(coerce_amount(AmountCell(b, q)))
                          /= astype_int(coerce_amount(AmountCell(b, TopRow(b, n))))

----------------------------------------------------------------------------
(* process_batch_file on the sheet read from a workbook, then the export   *)

MaxBatchRows == 4

\* The rows the sheet is drawn from: item cell, one amount column
BatchRows ==
    { <<T(FILE_TAG \o <<" ", "A", "/", "B">>), T(Y2022)>>,   \* file tag and year header
      <<T(FILE_TAG \o <<"A", "_", "B">>), I(2023)>>,
      <<T(DASHES), T(Y2022)>>,                               \* separator and year header
      <<NaN, T(Y2022)>>,                                     \* year header
      <<T(<<"R">>), I(100)>>,
      <<NaN, I(9)>> }

BatchGrids == UNION {[1..n -> BatchRows] : n \in 1..MaxBatchRows}

InitBatch ==
    /\ pc = "read"
    /\ str_na \in BOOLEAN
    /\ df_full \in BatchGrids
    /\ block_definitions = <<>>
    /\ dfs = <<>>
    /\ consolidated = NoTable
    /\ df_yoy_result = <<>>
    /\ split_indices = <<>>
    /\ sidx = 0
    /\ current_filename = <<>>
    /\ results = <<>>
    /\ chunks = <<>>
    /\ sheets = <<>>

\* lines 143-162: stringify column 0 and find the split rows; without any the
\* sheet is one block (lines 147-154) and the function returns
FindSplits ==
    /\ pc = "read"
    /\ df_full' = astype_str_col0(df_full, str_na)
    /\ IF SplitRows(df_full') = <<>>
       THEN LET df_result == consolidate_pl_sheets(df_full', str_na)
            IN  /\ results' = IF ~df_result.none /\ ~df_result.error
                              THEN <<[key |-> SINGLE_DATA, table |-> df_result]>>
                              ELSE <<>>
                /\ chunks' = IF df_result.error THEN <<>>
                             ELSE <<[start |-> 0, end |-> Len(df_full),
                                     table |-> ~df_result.none]>>
                /\ pc' = IF df_result.error THEN "error" ELSE "export"
                /\ UNCHANGED <<split_indices, current_filename>>
       ELSE /\ split_indices' = WithLeadingZero(SplitRows(df_full'))
            /\ current_filename' = UNKNOWN_FILE \o <<"_", "1">>
            /\ pc' = "loop"
            /\ UNCHANGED <<results, chunks>>
    /\ UNCHANGED <<str_na, block_definitions, dfs, consolidated, df_yoy_result,
                   sidx, sheets>>

\* lines 164-191, one iteration of the loop.  The header cell of an inserted row
\* 0 may be missing (where astype(str) keeps NaN): 'in' on it raises TypeError.
\* An exception consolidate_pl_sheets raises at line 93 is not caught either.
ProcessChunk ==
    /\ pc = "loop"
    /\ LET header_row_idx == split_indices[sidx + 1]
           header_cell    == df_full[header_row_idx + 1][1]
       IN  IF ~notna(header_cell)
           THEN /\ pc' = "error"
                /\ UNCHANGED <<current_filename, results, chunks, sidx>>
           ELSE LET name == NextFilename(header_cell.s, sidx, results,
                                         current_filename)
                    start_block_idx == header_row_idx
                    end_block_idx ==
                        IF sidx + 1 < Len(split_indices)
                        THEN split_indices[sidx + 2] ELSE Len(df_full)
                    data_chunk ==
                        SubSeq(df_full, start_block_idx + 1, end_block_idx)
                    df_result == consolidate_pl_sheets(data_chunk, str_na)
                    raised == df_result.error
                IN  /\ current_filename' = name
                    /\ results' =
                           IF ~raised /\ ~df_result.none /\ df_result.rows /= <<>>
                           THEN Append(results,
                                       [key   |-> FinalFilename(name, results),
                                        table |-> df_result])
                           ELSE results
                    /\ chunks' = IF raised THEN chunks
                                 ELSE Append(chunks,
                                             [start |-> start_block_idx,
                                              end   |-> end_block_idx,
                                              table |-> ~df_result.none])
                    /\ sidx' = IF raised THEN sidx ELSE sidx + 1
                    /\ pc' = IF raised THEN "error"
                             ELSE IF sidx + 1 < Len(split_indices)
                                  THEN "loop" ELSE "export"
    /\ UNCHANGED <<str_na, df_full, block_definitions, dfs, consolidated,
                   df_yoy_result, split_indices, sheets>>

\* lines 212 and 274-275: nothing to export
NoResults ==
    /\ pc = "export"
    /\ results = <<>>
    /\ pc' = "done"
    /\ UNCHANGED <<str_na, df_full, block_definitions, dfs, consolidated,
                   df_yoy_result, split_indices, sidx, current_filename, results,
                   chunks, sheets>>

\* lines 221-231, one iteration: the table written under its worksheet name, and
\* its year-over-year table
ExportSheet ==
    /\ pc = "export"
    /\ Len(sheets) < Len(results)
    /\ LET item == results[Len(sheets) + 1]
       IN  /\ sheets' = Append(sheets, safe_sheet_name(item.key))
           /\ consolidated' = item.table
           /\ df_yoy_result' = calculate_yoy(item.table)
    /\ pc' = IF Len(sheets) + 1 = Len(results) THEN "done" ELSE "export"
    /\ UNCHANGED <<str_na, df_full, block_definitions, dfs, split_indices, sidx,
                   current_filename, results, chunks>>

NextBatch == FindSplits \/ ProcessChunk \/ NoResults \/ ExportSheet

SpecBatch == InitBatch /\ [][NextBatch]_vars

----------------------------------------------------------------------------
(* Properties of process_batch_file and the export (under SpecBatch)       *)

\* process_batch_file returned
BatchReturned == pc \in {"export", "done"}

\* row r (0-based) of the sheet is a delimiter row
IsDelimRow(r) ==
    LET cell == df_full[r + 1][1]
    IN  notna(cell) /\ (Contains(str(cell), FILE_TAG) \/ Contains(str(cell), DASHES))

\* C5 as claimed: every block that yields a table is kept under its own key, and
\* the worksheet names the tables are written under are pairwise distinct.
C5_SheetNamesDistinct ==
    pc = "done" =>
        /\ Len(results) = Cardinality({k \in 1..Len(chunks) : chunks[k].table})
        /\ \A i, j \in 1..Len(results) : i /= j => results[i].key /= results[j].key
        /\ Len(sheets) = Len(results)
        /\ \A i, j \in 1..Len(sheets) : i /= j => sheets[i] /= sheets[j]

\* C10: the chunks handed to consolidate_pl_sheets are contiguous row ranges in
\* order that cover every row once; each starts at a delimiter row, except a
\* leading chunk, and holds no other delimiter row; a sheet without a delimiter
\* row is one chunk.
C10_ChunksPartition ==
    BatchReturned =>
        /\ chunks /= <<>>
        /\ chunks[1].start = 0
        /\ chunks[Len(chunks)].end = Len(df_full)
        /\ \A k \in 1..Len(chunks) :
               /\ chunks[k].start < chunks[k].end
               /\ k < Len(chunks) => chunks[k].end = chunks[k + 1].start
               /\ k > 1 => IsDelimRow(chunks[k].start)
               /\ \A r \in (chunks[k].start + 1)..(chunks[k].end - 1) : ~IsDelimRow(r)
        /\ (\A r \in 0..(Len(df_full) - 1) : ~IsDelimRow(r)) => Len(chunks) = 1

\* C10 witness: rows before the first delimiter form a leading chunk, followed
\* by two chunks that start at delimiter rows
C10_Witness ==
    /\ BatchReturned
    /\ Len(chunks) = 3
    /\ ~IsDelimRow(0)
    /\ chunks[2].end - chunks[2].start = 2

====
